---- MODULE Spec2Model ----
(***************************************************************************)
(* Cluster discovery and health check of bucky (src/bucky/cluster.go).     *)
(*                                                                         *)
(* Strings whose content the code inspects (addresses, node tokens, host   *)
(* names, ports) are sequences of one-character strings, so that           *)
(* strings.Split, net.SplitHostPort and fmt.Sprintf are computed and not   *)
(* assumed.  Algorithm names are only compared, and are plain strings.     *)
(* A *ClusterConfig is an index into heap, 0 being the nil pointer.        *)
(* A *JSONRingType is a record with a nil flag.                            *)
(***************************************************************************)
EXTENDS Integers, Sequences, FiniteSets, TLC

\* ------------------------------------------------------------------ bounds
MaxNodes == 2      \* longest node list a daemon reports
MaxCalls == 2      \* calls of GetClusterConfig in one run
NumProcs == 2      \* goroutines that may call GetClusterConfig

Procs == 1..NumProcs

\* ----------------------------------------------------------------- strings
Colon == ":"

\* first index of character c in s, 0 when absent (strings.Index)
RECURSIVE IndexFrom(_, _, _)
IndexFrom(s, c, i) ==
    IF i > Len(s) THEN 0
    ELSE IF s[i] = c THEN i
    ELSE IndexFrom(s, c, i + 1)

Index(s, c) == IndexFrom(s, c, 1)

\* last index of character c in s, 0 when absent
RECURSIVE LastIndexFrom(_, _, _)
LastIndexFrom(s, c, i) ==
    IF i < 1 THEN 0
    ELSE IF s[i] = c THEN i
    ELSE LastIndexFrom(s, c, i - 1)

LastIndex(s, c) == LastIndexFrom(s, c, Len(s))

\* strings.Split(s, ":"): every colon separates two fields
RECURSIVE Split(_)
Split(s) ==
    LET i == Index(s, Colon) IN
    IF i = 0 THEN <<s>>
    ELSE <<SubSeq(s, 1, i - 1)>> \o Split(SubSeq(s, i + 1, Len(s)))

\* fmt.Sprintf("%s:%s", a, b)
Sprintf(a, b) == a \o <<Colon>> \o b

\* net.SplitHostPort on addresses without brackets: the port is what follows
\* the last colon; no colon, or a colon left in the host, is an error.
SplitHostPort(s) ==
    LET i == LastIndex(s, Colon)
        host == SubSeq(s, 1, i - 1)
    IN  IF i = 0
        THEN [host |-> <<>>, port |-> <<>>, err |-> TRUE]
        ELSE IF Index(host, Colon) # 0
        THEN [host |-> <<>>, port |-> <<>>, err |-> TRUE]
        ELSE [host |-> host, port |-> SubSeq(s, i + 1, Len(s)), err |-> FALSE]

\* ------------------------------------------------------------------ inputs
\* node tokens: two instances on host a (one with a second colon), and a
\* token without instance
Tokens == { <<"a", ":", "0">>, <<"a", ":", "1", ":", "2">>, <<"b">> }

RECURSIVE SeqsUpTo(_, _)
SeqsUpTo(S, n) ==
    IF n = 0 THEN { <<>> }
    ELSE LET shorter == SeqsUpTo(S, n - 1)
         IN  shorter \cup { Append(s, x) : s \in { t \in shorter : Len(t) = n - 1 }, x \in S }

NodeLists == SeqsUpTo(Tokens, MaxNodes)

Algos == { "carbon", "jump_fnv1a", "bogus" }

ReplicaCounts == { 1, 2 }

\* the nil *JSONRingType
NilRing == [nil |-> TRUE, Algo |-> "", Replicas |-> 0, Nodes |-> <<>>]

JSONRingType(algo, replicas, nodes) ==
    [nil |-> FALSE, Algo |-> algo, Replicas |-> replicas, Nodes |-> nodes]

Snapshots == { JSONRingType(al, r, ns) : al \in Algos, r \in ReplicaCounts, ns \in NodeLists }

\* addresses: the seed on host a, a daemon outside the node list, no port
Addresses == { <<"a", ":", "8">>, <<"z", ":", "9">>, <<"a">> }

Reverse(s) == [k \in 1..Len(s) |-> s[Len(s) + 1 - k]]

\* what a peer daemon may answer when the seed answered m: the same view, or
\* a view that differs in one of replicas, algorithm, node order, node count
PeerReplies(m) ==
    { m,
      [m EXCEPT !.Replicas = 3 - @],
      [m EXCEPT !.Algo = IF @ = "carbon" THEN "jump_fnv1a" ELSE "carbon"],
      [m EXCEPT !.Nodes = Reverse(@)],
      [m EXCEPT !.Nodes = IF @ = <<>> THEN <<>> ELSE Tail(@)] }

\* ------------------------------------------------------------------- state
VARIABLES
    HostPort,   \* the package-level address GetClusterConfig parses at line 58
    Cluster,    \* var Cluster *ClusterConfig: index into heap, 0 is nil
    heap,       \* the ClusterConfig objects allocated so far
    pc,         \* position of each caller in GetClusterConfig
    hostport,   \* the argument of the current call
    master,     \* local master
    server,     \* local server
    port,       \* local port
    members,    \* local members
    rng,        \* the slice the loop of line 88 ranges over
    idx,        \* loop index of lines 77 and 88
    ret,        \* what the call returned
    probes,     \* addresses passed to GetSingleHashRing by the current call
    atCall,     \* history: cache and record of earlier calls when the call began
    okObj,      \* history: object of the first call that returned without error
    seedFailed, \* history: some call was aborted by a failed seed probe
    calls,      \* number of calls made
    hostPortsRet \* receiver and result of the last call of HostPorts

vars == <<HostPort, Cluster, heap, pc, hostport, master, server, port, members,
          rng, idx, ret, probes, atCall, okObj, seedFailed, calls, hostPortsRet>>

locals == <<master, server, port, members, rng, idx>>
history == <<atCall, okObj, seedFailed, calls>>

\* hashing.HashRing: nil, or the constructor used and the nodes added
NilHash == [nil |-> TRUE, kind |-> "", replicas |-> 0, nodes |-> <<>>]

NewCarbonHashRing == [nil |-> FALSE, kind |-> "carbon", replicas |-> 0, nodes |-> <<>>]

NewJumpHashRing(replicas) ==
    [nil |-> FALSE, kind |-> "jump_fnv1a", replicas |-> replicas, nodes |-> <<>>]

AddNode(h, node) == [h EXCEPT !.nodes = Append(@, node)]

\* new(ClusterConfig): every field has its zero value
NewClusterConfig == [Port |-> <<>>, Servers |-> <<>>, Hash |-> NilHash, Healthy |-> FALSE]

NoReturn == [cfg |-> 0, err |-> "none"]

\* HostPorts has not been called since the last call of GetClusterConfig
NotCalled == [called |-> FALSE, c |-> 0, out |-> <<>>]

Init ==
    /\ HostPort \in Addresses
    /\ Cluster = 0
    /\ heap = <<>>
    /\ pc = [p \in Procs |-> "idle"]
    /\ hostport = [p \in Procs |-> <<>>]
    /\ master = [p \in Procs |-> NilRing]
    /\ server = [p \in Procs |-> <<>>]
    /\ port = [p \in Procs |-> <<>>]
    /\ members = [p \in Procs |-> <<>>]
    /\ rng = [p \in Procs |-> <<>>]
    /\ idx = [p \in Procs |-> 0]
    /\ ret = [p \in Procs |-> NoReturn]
    /\ probes = [p \in Procs |-> <<>>]
    /\ atCall = [p \in Procs |-> [Cluster |-> 0, okObj |-> 0, seedFailed |-> FALSE]]
    /\ okObj = 0
    /\ seedFailed = FALSE
    /\ calls = 0
    /\ hostPortsRet = NotCalled

\* a panic ends the program
Running == \A q \in Procs : pc[q] # "panic"

\* ----------------------------------------------------------- isHealthy
\* lines 126-143: the first peer that is nil, or differs, decides
RECURSIVE ringCheck(_, _, _)
ringCheck(m, ring, k) ==
    IF k > Len(ring) THEN "true"
    ELSE LET v == ring[k] IN
         IF v.nil THEN "panic"
         ELSE IF m.Algo # v.Algo THEN "false"
         ELSE IF Len(v.Nodes) # Len(m.Nodes) THEN "false"
         ELSE IF \E j \in 1..Len(v.Nodes) : v.Nodes[j] # m.Nodes[j] THEN "false"
         ELSE ringCheck(m, ring, k + 1)

\* isHealthy with the seed counted in: len(ring)+1 at line 118
isHealthyPlusOne(m, ring) ==
    IF Len(m.Nodes) # Len(ring) + 1 THEN "false"
    ELSE ringCheck(m, ring, 1)

\* ringCheck that also compares the replica counts
RECURSIVE ringCheckReplicas(_, _, _)
ringCheckReplicas(m, ring, k) ==
    IF k > Len(ring) THEN "true"
    ELSE LET v == ring[k] IN
         IF v.nil THEN "panic"
         ELSE IF m.Algo # v.Algo THEN "false"
         ELSE IF m.Replicas # v.Replicas THEN "false"
         ELSE IF Len(v.Nodes) # Len(m.Nodes) THEN "false"
         ELSE IF \E j \in 1..Len(v.Nodes) : v.Nodes[j] # m.Nodes[j] THEN "false"
         ELSE ringCheckReplicas(m, ring, k + 1)

\* isHealthy that takes the replicas into account
isHealthyReplicas(m, ring) ==
    IF Len(m.Nodes) # Len(ring) THEN "false"
    ELSE ringCheckReplicas(m, ring, 1)

\* ringCheck without the comparison of the node tokens
RECURSIVE ringCheckNoOrder(_, _, _)
ringCheckNoOrder(m, ring, k) ==
    IF k > Len(ring) THEN "true"
    ELSE LET v == ring[k] IN
         IF v.nil THEN "panic"
         ELSE IF m.Algo # v.Algo THEN "false"
         ELSE IF Len(v.Nodes) # Len(m.Nodes) THEN "false"
         ELSE ringCheckNoOrder(m, ring, k + 1)

\* isHealthy that does not look at the order of the nodes
isHealthyNoOrder(m, ring) ==
    IF Len(m.Nodes) # Len(ring) THEN "false"
    ELSE ringCheckNoOrder(m, ring, 1)

\* lines 108-146; "panic" is the nil pointer dereference of v.Algo
isHealthy(m, ring) ==
    IF Len(m.Nodes) # Len(ring) THEN "false"
    ELSE ringCheck(m, ring, 1)

\* ------------------------------------------------------ GetClusterConfig
Return(p, cfg, err) ==
    /\ pc' = [pc EXCEPT ![p] = "done"]
    /\ ret' = [ret EXCEPT ![p] = [cfg |-> cfg, err |-> err]]
    /\ okObj' = IF err = "nil" /\ okObj = 0 THEN cfg ELSE okObj

\* a caller enters GetClusterConfig(hp)
Call(p, hp) ==
    /\ Running
    /\ pc[p] \in {"idle", "done"}
    /\ calls < MaxCalls
    /\ calls' = calls + 1
    /\ pc' = [pc EXCEPT ![p] = "l48"]
    /\ hostport' = [hostport EXCEPT ![p] = hp]
    /\ master' = [master EXCEPT ![p] = NilRing]
    /\ server' = [server EXCEPT ![p] = <<>>]
    /\ port' = [port EXCEPT ![p] = <<>>]
    /\ members' = [members EXCEPT ![p] = <<>>]
    /\ rng' = [rng EXCEPT ![p] = <<>>]
    /\ idx' = [idx EXCEPT ![p] = 0]
    /\ ret' = [ret EXCEPT ![p] = NoReturn]
    /\ probes' = [probes EXCEPT ![p] = <<>>]
    /\ atCall' = [atCall EXCEPT ![p] =
                     [Cluster |-> Cluster, okObj |-> okObj, seedFailed |-> seedFailed]]
    /\ hostPortsRet' = NotCalled
    /\ UNCHANGED <<HostPort, Cluster, heap, okObj, seedFailed>>

\* CheckCache without the memoization: the cache is never consulted
CheckCacheNoMemo(p) ==
    /\ Running
    /\ pc[p] = "l48"
    /\ pc' = [pc EXCEPT ![p] = "l52"]
    /\ UNCHANGED <<hostPortsRet, HostPort, Cluster, heap, hostport, locals, ret, probes, history>>

\* lines 48-50
CheckCache(p) ==
    /\ Running
    /\ pc[p] = "l48"
    /\ IF Cluster # 0
       THEN Return(p, Cluster, "nil")
       ELSE /\ pc' = [pc EXCEPT ![p] = "l52"]
            /\ UNCHANGED <<ret, okObj>>
    /\ UNCHANGED <<hostPortsRet, HostPort, Cluster, heap, hostport, locals, probes, atCall,
                   seedFailed, calls>>

\* lines 52-56: the seed answers with snapshot m
ProbeSeedOk(p, m) ==
    /\ Running
    /\ pc[p] = "l52"
    /\ probes' = [probes EXCEPT ![p] = Append(@, hostport[p])]
    /\ master' = [master EXCEPT ![p] = m]
    /\ pc' = [pc EXCEPT ![p] = "l58"]
    /\ UNCHANGED <<hostPortsRet, HostPort, Cluster, heap, hostport, server, port, members, rng,
                   idx, ret, history>>

\* lines 52-56: the seed does not answer
ProbeSeedFail(p) ==
    /\ Running
    /\ pc[p] = "l52"
    /\ probes' = [probes EXCEPT ![p] = Append(@, hostport[p])]
    /\ Return(p, 0, "probe")
    /\ seedFailed' = TRUE
    /\ UNCHANGED <<hostPortsRet, HostPort, Cluster, heap, hostport, locals, atCall, calls>>

\* lines 58-62: the address that is parsed is the package-level HostPort
ParseAddress(p) ==
    /\ Running
    /\ pc[p] = "l58"
    /\ LET r == SplitHostPort(HostPort) IN
       IF r.err
       THEN /\ Return(p, 0, "address")
            /\ UNCHANGED <<server, port>>
       ELSE /\ server' = [server EXCEPT ![p] = r.host]
            /\ port' = [port EXCEPT ![p] = r.port]
            /\ pc' = [pc EXCEPT ![p] = "l64"]
            /\ UNCHANGED <<ret, okObj>>
    /\ UNCHANGED <<hostPortsRet, HostPort, Cluster, heap, hostport, master, members, rng, idx,
                   probes, atCall, seedFailed, calls>>

\* line 64: the new object is stored in the package-level Cluster at once
NewCluster(p) ==
    /\ Running
    /\ pc[p] = "l64"
    /\ heap' = Append(heap, NewClusterConfig)
    /\ Cluster' = Len(heap) + 1
    /\ pc' = [pc EXCEPT ![p] = "l65"]
    /\ UNCHANGED <<hostPortsRet, HostPort, hostport, locals, ret, probes, history>>

\* lines 65-66, written through Cluster
SetPort(p) ==
    /\ Running
    /\ pc[p] = "l65"
    /\ heap' = [heap EXCEPT ![Cluster] = [@ EXCEPT !.Port = port[p], !.Servers = <<>>]]
    /\ pc' = [pc EXCEPT ![p] = "l67"]
    /\ UNCHANGED <<hostPortsRet, HostPort, Cluster, hostport, locals, ret, probes, history>>

\* SwitchAlgo that empties the cache again when the algorithm is unknown
SwitchAlgoResets(p) ==
    /\ Running
    /\ pc[p] = "l67"
    /\ IF master[p].Algo = "carbon"
       THEN /\ heap' = [heap EXCEPT ![Cluster].Hash = NewCarbonHashRing]
            /\ pc' = [pc EXCEPT ![p] = "l77"]
            /\ UNCHANGED <<ret, okObj, Cluster>>
       ELSE IF master[p].Algo = "jump_fnv1a"
       THEN /\ heap' = [heap EXCEPT ![Cluster].Hash = NewJumpHashRing(master[p].Replicas)]
            /\ pc' = [pc EXCEPT ![p] = "l77"]
            /\ UNCHANGED <<ret, okObj, Cluster>>
       ELSE /\ Return(p, 0, "algorithm")
            /\ Cluster' = 0
            /\ UNCHANGED heap
    /\ idx' = [idx EXCEPT ![p] = 1]
    /\ UNCHANGED <<hostPortsRet, HostPort, hostport, master, server, port, members, rng,
                   probes, atCall, seedFailed, calls>>

\* lines 67-75
SwitchAlgo(p) ==
    /\ Running
    /\ pc[p] = "l67"
    /\ IF master[p].Algo = "carbon"
       THEN /\ heap' = [heap EXCEPT ![Cluster].Hash = NewCarbonHashRing]
            /\ pc' = [pc EXCEPT ![p] = "l77"]
            /\ UNCHANGED <<ret, okObj>>
       ELSE IF master[p].Algo = "jump_fnv1a"
       THEN /\ heap' = [heap EXCEPT ![Cluster].Hash = NewJumpHashRing(master[p].Replicas)]
            /\ pc' = [pc EXCEPT ![p] = "l77"]
            /\ UNCHANGED <<ret, okObj>>
       ELSE /\ Return(p, 0, "algorithm")
            /\ UNCHANGED heap
    /\ idx' = [idx EXCEPT ![p] = 1]
    /\ UNCHANGED <<hostPortsRet, HostPort, Cluster, hostport, master, server, port, members, rng,
                   probes, atCall, seedFailed, calls>>

\* lines 79-84 for one token: the host name and the node of the hash ring
Fields(v) ==
    LET fields == Split(v) IN
    IF Len(fields) < 2 THEN Append(fields, <<>>) ELSE fields

Node(v) == <<Fields(v)[1], Fields(v)[2]>>

\* AddServer that keeps servers free of duplicates
AddServerUnique(p) ==
    /\ Running
    /\ pc[p] = "l77"
    /\ IF idx[p] > Len(master[p].Nodes)
       THEN /\ pc' = [pc EXCEPT ![p] = "l87"]
            /\ UNCHANGED <<heap, idx>>
       ELSE LET v == master[p].Nodes[idx[p]]
                seen == \E k \in 1..Len(heap[Cluster].Servers) :
                            heap[Cluster].Servers[k] = Split(v)[1]
                appended == IF seen THEN heap
                            ELSE [heap EXCEPT ![Cluster].Servers = Append(@, Split(v)[1])]
            IN  IF heap[Cluster].Hash.nil
                THEN /\ heap' = appended
                     /\ pc' = [pc EXCEPT ![p] = "panic"]
                     /\ UNCHANGED idx
                ELSE /\ heap' = [appended EXCEPT ![Cluster].Hash = AddNode(@, Node(v))]
                     /\ idx' = [idx EXCEPT ![p] = idx[p] + 1]
                     /\ UNCHANGED pc
    /\ UNCHANGED <<hostPortsRet, HostPort, Cluster, hostport, master, server, port, members, rng,
                   ret, probes, history>>

\* AddServer that adds no node to the ring for a token without instance
AddServerNoInstance(p) ==
    /\ Running
    /\ pc[p] = "l77"
    /\ IF idx[p] > Len(master[p].Nodes)
       THEN /\ pc' = [pc EXCEPT ![p] = "l87"]
            /\ UNCHANGED <<heap, idx>>
       ELSE LET v == master[p].Nodes[idx[p]]
                appended == [heap EXCEPT ![Cluster].Servers = Append(@, Split(v)[1])]
            IN  IF heap[Cluster].Hash.nil
                THEN /\ heap' = appended
                     /\ pc' = [pc EXCEPT ![p] = "panic"]
                     /\ UNCHANGED idx
                ELSE /\ heap' = IF Len(Split(v)) < 2 THEN appended
                                ELSE [appended EXCEPT ![Cluster].Hash = AddNode(@, Node(v))]
                     /\ idx' = [idx EXCEPT ![p] = idx[p] + 1]
                     /\ UNCHANGED pc
    /\ UNCHANGED <<hostPortsRet, HostPort, Cluster, hostport, master, server, port, members, rng,
                   ret, probes, history>>

\* lines 77-85, one iteration; AddNode on a nil Hash panics
AddServer(p) ==
    /\ Running
    /\ pc[p] = "l77"
    /\ IF idx[p] > Len(master[p].Nodes)
       THEN /\ pc' = [pc EXCEPT ![p] = "l87"]
            /\ UNCHANGED <<heap, idx>>
       ELSE LET v == master[p].Nodes[idx[p]]
                appended == [heap EXCEPT ![Cluster].Servers = Append(@, Split(v)[1])]
            IN  IF heap[Cluster].Hash.nil
                THEN /\ heap' = appended
                     /\ pc' = [pc EXCEPT ![p] = "panic"]
                     /\ UNCHANGED idx
                ELSE /\ heap' = [appended EXCEPT ![Cluster].Hash = AddNode(@, Node(v))]
                     /\ idx' = [idx EXCEPT ![p] = idx[p] + 1]
                     /\ UNCHANGED pc
    /\ UNCHANGED <<hostPortsRet, HostPort, Cluster, hostport, master, server, port, members, rng,
                   ret, probes, history>>

\* lines 87-88: members is empty and the range expression is evaluated once
StartPeers(p) ==
    /\ Running
    /\ pc[p] = "l87"
    /\ members' = [members EXCEPT ![p] = <<>>]
    /\ rng' = [rng EXCEPT ![p] = heap[Cluster].Servers]
    /\ idx' = [idx EXCEPT ![p] = 1]
    /\ pc' = [pc EXCEPT ![p] = "l88"]
    /\ UNCHANGED <<hostPortsRet, HostPort, Cluster, heap, hostport, master, server, port, ret,
                   probes, history>>

\* lines 88-92: the loop ends, or the server is the seed and is skipped
SkipOrEnd(p) ==
    /\ Running
    /\ pc[p] = "l88"
    /\ IF idx[p] > Len(rng[p])
       THEN /\ pc' = [pc EXCEPT ![p] = "l101"]
            /\ UNCHANGED idx
       ELSE /\ rng[p][idx[p]] = server[p]
            /\ idx' = [idx EXCEPT ![p] = idx[p] + 1]
            /\ UNCHANGED pc
    /\ UNCHANGED <<hostPortsRet, HostPort, Cluster, heap, hostport, master, server, port, members,
                   rng, ret, probes, history>>

\* ProbePeer that collects the answers newest first
ProbePeerNewestFirst(p, member) ==
    /\ Running
    /\ pc[p] = "l88"
    /\ idx[p] <= Len(rng[p])
    /\ rng[p][idx[p]] # server[p]
    /\ probes' = [probes EXCEPT ![p] =
                     <<Head(@), Sprintf(rng[p][idx[p]], heap[Cluster].Port)>> \o Tail(@)]
    /\ members' = [members EXCEPT ![p] = <<member>> \o @]
    /\ idx' = [idx EXCEPT ![p] = idx[p] + 1]
    /\ UNCHANGED <<hostPortsRet, HostPort, Cluster, heap, pc, hostport, master, server, port, rng,
                   ret, history>>

\* lines 93-98: the peer is probed and member is appended, nil when the probe
\* failed
ProbePeer(p, member) ==
    /\ Running
    /\ pc[p] = "l88"
    /\ idx[p] <= Len(rng[p])
    /\ rng[p][idx[p]] # server[p]
    /\ probes' = [probes EXCEPT ![p] = Append(@, Sprintf(rng[p][idx[p]], heap[Cluster].Port))]
    /\ members' = [members EXCEPT ![p] = Append(@, member)]
    /\ idx' = [idx EXCEPT ![p] = idx[p] + 1]
    /\ UNCHANGED <<hostPortsRet, HostPort, Cluster, heap, pc, hostport, master, server, port, rng,
                   ret, history>>

\* lines 101-102
Finish(p) ==
    /\ Running
    /\ pc[p] = "l101"
    /\ LET h == isHealthy(master[p], members[p]) IN
       IF h = "panic"
       THEN /\ pc' = [pc EXCEPT ![p] = "panic"]
            /\ UNCHANGED <<heap, ret, okObj>>
       ELSE /\ heap' = [heap EXCEPT ![Cluster].Healthy = (h = "true")]
            /\ Return(p, Cluster, "nil")
    /\ UNCHANGED <<hostPortsRet, HostPort, Cluster, hostport, locals, probes, atCall, seedFailed,
                   calls>>

\* GetSingleHashRing: a snapshot, or nil and an error
ProbeOutcomes(replies) == replies \cup { NilRing }

\* one step of caller p; the seed answers from seeds, a peer from peers
Step(p, seeds, peers) ==
    \/ \E hp \in Addresses : Call(p, hp)
    \/ CheckCache(p)
    \/ \E m \in seeds : ProbeSeedOk(p, m)
    \/ ProbeSeedFail(p)
    \/ ParseAddress(p)
    \/ NewCluster(p)
    \/ SetPort(p)
    \/ SwitchAlgo(p)
    \/ AddServer(p)
    \/ StartPeers(p)
    \/ SkipOrEnd(p)
    \/ \E member \in ProbeOutcomes(PeerReplies(master[p]) \cap peers) : ProbePeer(p, member)
    \/ Finish(p)

\* what the daemons answer in the runs with sequential calls: the replicas,
\* which GetClusterConfig only hands to NewJumpHashRing, are the same everywhere
SeqSnapshots == { s \in Snapshots : s.Replicas = 1 }

\* calls one after the other, all from one goroutine
Next == Step(1, SeqSnapshots, SeqSnapshots)

Spec == Init /\ [][Next]_vars

\* what the daemons answer in the runs with concurrent callers
ConcSeeds == { JSONRingType(al, 1, << <<"a", ":", "0">>, <<"b">> >>) : al \in {"carbon", "bogus"} }

\* callers in several goroutines: the code takes no lock, any interleaving of
\* their steps is possible
NextConc == \E p \in Procs : Step(p, ConcSeeds, ConcSeeds)

SpecConc == Init /\ [][NextConc]_vars

\* HostPorts with the elements of ret in reverse field order
HostPortsSwapped(c) ==
    IF c = 0 THEN <<>>
    ELSE [k \in 1..Len(heap[c].Servers) |-> Sprintf(heap[c].Port, heap[c].Servers[k])]

\* lines 37-41: ret after the servers from index k on have been appended
RECURSIVE HostPortsLoop(_, _, _)
HostPortsLoop(c, k, acc) ==
    IF k > Len(heap[c].Servers) THEN acc
    ELSE HostPortsLoop(c, k + 1, Append(acc, Sprintf(heap[c].Servers[k], heap[c].Port)))

\* lines 33-42; the nil slice and the empty slice are both <<>>
HostPorts(c) ==
    IF c = 0 THEN <<>>
    ELSE HostPortsLoop(c, 1, <<>>)

\* the caller, outside GetClusterConfig, calls c.HostPorts()
CallHostPorts(p, c) ==
    /\ Running
    /\ pc[p] \in {"idle", "done"}
    /\ hostPortsRet' = [called |-> TRUE, c |-> c, out |-> HostPorts(c)]
    /\ UNCHANGED <<HostPort, Cluster, heap, pc, hostport, locals, ret, probes, history>>

\* the ClusterConfig lines 64-85 build from seed snapshot m and port prt
BuiltConfig(m, prt) ==
    [ Port |-> prt,
      Servers |-> [k \in 1..Len(m.Nodes) |-> Split(m.Nodes[k])[1]],
      Hash |-> [ nil |-> FALSE,
                 kind |-> m.Algo,
                 replicas |-> IF m.Algo = "carbon" THEN 0 ELSE m.Replicas,
                 nodes |-> [k \in 1..Len(m.Nodes) |-> Node(m.Nodes[k])] ],
      Healthy |-> FALSE ]

\* isHealthy and HostPorts on their own: a caller stands at line 101 with any
\* reference snapshot of a recognized algorithm, the config built from it,
\* and any sequence of peer snapshots, present or nil, of at most MaxNodes
\* entries
InitHealthy ==
    /\ HostPort = <<"a", ":", "8">>
    /\ Cluster = 1
    /\ \E m \in { s \in Snapshots : s.Algo \in {"carbon", "jump_fnv1a"} } :
       \E ring \in SeqsUpTo(ProbeOutcomes(PeerReplies(m)), MaxNodes) :
           /\ master = [p \in Procs |-> IF p = 1 THEN m ELSE NilRing]
           /\ members = [p \in Procs |-> IF p = 1 THEN ring ELSE <<>>]
           /\ heap = << BuiltConfig(m, <<"8">>) >>
    /\ pc = [p \in Procs |-> IF p = 1 THEN "l101" ELSE "idle"]
    /\ hostport = [p \in Procs |-> IF p = 1 THEN HostPort ELSE <<>>]
    /\ server = [p \in Procs |-> IF p = 1 THEN <<"a">> ELSE <<>>]
    /\ port = [p \in Procs |-> IF p = 1 THEN <<"8">> ELSE <<>>]
    /\ rng = [p \in Procs |-> IF p = 1 THEN heap[1].Servers ELSE <<>>]
    /\ idx = [p \in Procs |-> IF p = 1 THEN Len(heap[1].Servers) + 1 ELSE 0]
    /\ ret = [p \in Procs |-> NoReturn]
    /\ probes = [p \in Procs |-> <<>>]
    /\ atCall = [p \in Procs |-> [Cluster |-> 0, okObj |-> 0, seedFailed |-> FALSE]]
    /\ okObj = 0
    /\ seedFailed = FALSE
    /\ calls = 1
    /\ hostPortsRet = NotCalled

\* the verdict is computed, and the caller reads the addresses of the config
\* or of the nil config
NextHealthy ==
    \/ Finish(1)
    \/ \E c \in {0, Cluster} : CallHostPorts(1, c)

SpecHealthy == InitHealthy /\ [][NextHealthy]_vars

\* ------------------------------------------------------------- properties
Recognized == { "carbon", "jump_fnv1a" }

\* the call of p has run a discovery of its own: it probed the seed
Discovered(p) == Len(probes[p]) >= 1 /\ ~master[p].nil

\* host names of a node list, in order
HostNames(nodes) == [k \in 1..Len(nodes) |-> Split(nodes[k])[1]]

\* C1: once a call has returned a config without error, every later call,
\* whatever its argument, returns that same object without error and probes
\* nothing: it never leaves the cache check.
C1_Idempotent ==
    \A p \in Procs :
        (pc[p] # "idle" /\ atCall[p].okObj # 0) =>
            /\ probes[p] = <<>>
            /\ pc[p] \in {"l48", "done"}
            /\ pc[p] = "done" => ret[p] = [cfg |-> atCall[p].okObj, err |-> "nil"]

\* a call made after a successful one has returned, with another argument
C1_Witness ==
    \E p \in Procs :
        /\ pc[p] = "done"
        /\ atCall[p].okObj # 0
        /\ heap[atCall[p].okObj].Servers # <<>>
        /\ hostport[p] # HostPort

\* C2: when the seed reports an algorithm that is neither carbon nor
\* jump_fnv1a, the call returns an error and the cache is still empty.
C2_UnknownAlgorithmLeavesCacheEmpty ==
    \A p \in Procs :
        (pc[p] = "done" /\ Discovered(p) /\ master[p].Algo \notin Recognized
                        /\ hostport[p] = HostPort /\ ~SplitHostPort(hostport[p]).err) =>
            /\ ret[p].err = "algorithm"
            /\ Cluster = 0

\* C3: a call aborted by a failed seed probe leaves the cache as it was, and
\* a later call on an empty cache whose seed probe succeeds (well-formed
\* argument, recognized algorithm) runs a discovery and returns a config
\* without error.
C3_FailureIsolation ==
    \A p \in Procs :
        /\ (pc[p] = "done" /\ ret[p].err = "probe") => Cluster = atCall[p].Cluster
        /\ ( /\ atCall[p].seedFailed
             /\ atCall[p].Cluster = 0
             /\ pc[p] \in {"done", "panic"}
             /\ Discovered(p)
             /\ master[p].Algo \in Recognized
             /\ ~SplitHostPort(hostport[p]).err ) =>
                /\ pc[p] = "done"
                /\ ret[p].err = "nil"
                /\ ret[p].cfg # 0

\* C4: every call that returns without error returns a fully constructed
\* ClusterConfig: the hash ring is constructed and holds one node per server,
\* and when the call ran the discovery itself, servers, the ring and healthy
\* are those of its seed snapshot.
C4_SuccessIsFullyBuilt ==
    \A p \in Procs :
        (pc[p] = "done" /\ ret[p].err = "nil") =>
            /\ ret[p].cfg # 0
            /\ ~heap[ret[p].cfg].Hash.nil
            /\ Len(heap[ret[p].cfg].Hash.nodes) = Len(heap[ret[p].cfg].Servers)
            /\ Discovered(p) =>
                  /\ heap[ret[p].cfg].Servers = HostNames(master[p].Nodes)
                  /\ heap[ret[p].cfg].Hash.nodes =
                        [k \in 1..Len(master[p].Nodes) |-> Node(master[p].Nodes[k])]
                  /\ heap[ret[p].cfg].Healthy = (isHealthy(master[p], members[p]) = "true")

\* every peer answered, with the algorithm and the node list of the seed
PeersAgree(p) ==
    \A k \in 1..Len(members[p]) :
        /\ ~members[p][k].nil
        /\ members[p][k].Algo = master[p].Algo
        /\ members[p][k].Nodes = master[p].Nodes

\* C5: when the seed's host name is one of its own nodes and every peer
\* answers with the seed's algorithm and node list, the call returns a config
\* with healthy = true and servers = the host names of the seed's nodes.
C5_HealthyConvergence ==
    \A p \in Procs :
        ( /\ pc[p] \in {"done", "panic"}
          /\ Discovered(p)
          /\ master[p].Algo \in Recognized
          /\ hostport[p] = HostPort
          /\ ~SplitHostPort(hostport[p]).err
          /\ \E k \in 1..Len(master[p].Nodes) :
                 Split(master[p].Nodes[k])[1] = SplitHostPort(hostport[p]).host
          /\ Len(members[p]) >= 1
          /\ PeersAgree(p) ) =>
            /\ pc[p] = "done"
            /\ ret[p].err = "nil"
            /\ heap[ret[p].cfg].Healthy
            /\ heap[ret[p].cfg].Servers = HostNames(master[p].Nodes)

\* C6: no execution reads a field of a nil peer snapshot.
C6_NoNilDereference ==
    \A p \in Procs :
        ~SplitHostPort(hostport[p]).err =>
            ~(pc[p] = "panic" /\ isHealthy(master[p], members[p]) = "panic")

\* C7: when the seed answers with a recognized algorithm and some peer probe
\* fails, the call still returns a config without error, that config is the
\* cached one, and its healthy is false.
C7_UnreachablePeerIsUnhealthy ==
    \A p \in Procs :
        ( /\ pc[p] \in {"done", "panic"}
          /\ Discovered(p)
          /\ master[p].Algo \in Recognized
          /\ ~SplitHostPort(hostport[p]).err
          /\ \E k \in 1..Len(members[p]) : members[p][k].nil ) =>
            /\ pc[p] = "done"
            /\ ret[p].err = "nil"
            /\ ret[p].cfg # 0
            /\ ret[p].cfg = Cluster
            /\ ~heap[ret[p].cfg].Healthy

\* the caller has probed the seed and is still inside its discovery
Discovering(p) == pc[p] \in {"l58", "l64", "l65", "l67", "l77", "l87", "l88", "l101"}

\* C8: with concurrent callers on an empty cache the discovery runs once: no
\* two callers are inside a discovery at the same time, one object at most is
\* ever assigned to the cache, and all successful callers return that object.
C8_SingleDiscovery ==
    /\ \A p, q \in Procs : (p # q /\ Discovering(p)) => ~Discovering(q)
    /\ Len(heap) <= 1
    /\ \A p, q \in Procs :
          (pc[p] = "done" /\ pc[q] = "done" /\ ret[p].err = "nil" /\ ret[q].err = "nil")
              => ret[p].cfg = ret[q].cfg

\* C9: a ClusterConfig that a caller has obtained from the cache never changes
\* afterwards: port, servers, hash ring and healthy already hold their final
\* values.
C9_PublishedIsImmutable ==
    [][\A q \in Procs :
          (pc[q] = "done" /\ ret[q].cfg # 0) =>
              heap'[ret[q].cfg] = heap[ret[q].cfg]]_vars

\* C10: every peer address is built with the port of the hostport argument,
\* and the host of the argument is not probed a second time.
C10_PeersUseArgument ==
    \A p \in Procs :
        ~SplitHostPort(hostport[p]).err =>
            \A k \in 2..Len(probes[p]) :
                /\ SplitHostPort(probes[p][k]).port = SplitHostPort(hostport[p]).port
                /\ SplitHostPort(probes[p][k]).host # SplitHostPort(hostport[p]).host
\* C11: when a probed peer reports a node list that differs from the seed's
\* at some position (the same nodes in another order, for instance), the
\* ClusterConfig the call returns has healthy = false.
C11_OrderSensitive ==
    \A p \in Procs :
        ( /\ pc[p] = "done"
          /\ Discovered(p)
          /\ ret[p].err = "nil"
          /\ \E k \in 1..Len(members[p]) :
                 ~members[p][k].nil /\ members[p][k].Nodes # master[p].Nodes ) =>
            ~heap[ret[p].cfg].Healthy

\* the same nodes in another order
Permuted(a, b) ==
    /\ a # b
    /\ Len(a) = Len(b)
    /\ \A x \in Tokens : Cardinality({k \in 1..Len(a) : a[k] = x})
                            = Cardinality({k \in 1..Len(b) : b[k] = x})

\* every peer was probed and answered with the seed's algorithm and node
\* count, so that only the order of one peer's nodes decides the verdict
C11_Witness ==
    \E p \in Procs :
        /\ pc[p] = "done"
        /\ Discovered(p)
        /\ Len(members[p]) = Len(master[p].Nodes)
        /\ \A k \in 1..Len(members[p]) :
               ~members[p][k].nil /\ members[p][k].Algo = master[p].Algo
        /\ \E k \in 1..Len(members[p]) : Permuted(members[p][k].Nodes, master[p].Nodes)
        /\ ~heap[ret[p].cfg].Healthy
\* C12: in the ClusterConfig the cache holds, servers is as long as the number
\* of nodes added to its hash ring, and the ring exists when servers is not
\* empty.
C12_ServersMatchRing ==
    Cluster # 0 =>
        /\ Len(heap[Cluster].Servers) = Len(heap[Cluster].Hash.nodes)
        /\ heap[Cluster].Servers # <<>> => ~heap[Cluster].Hash.nil

\* a cached config built from a seed with several nodes
C12_Witness ==
    /\ Cluster # 0
    /\ Len(heap[Cluster].Servers) >= 2
    /\ \E p \in Procs : pc[p] = "done" /\ ret[p].cfg = Cluster
NoDup(s) == \A i, j \in 1..Len(s) : i # j => s[i] # s[j]

\* number of entries of s equal to x
Count(s, x) == Cardinality({k \in 1..Len(s) : s[k] = x})

\* the call of p has built servers and the ring from its seed snapshot
Built(p) ==
    /\ Discovered(p)
    /\ \/ pc[p] \in {"l87", "l88", "l101", "panic"}
       \/ pc[p] = "done" /\ ret[p].err = "nil"

\* the call of p has left the loop of lines 88-99
Probed(p) ==
    /\ Discovered(p)
    /\ \/ pc[p] \in {"l101", "panic"}
       \/ pc[p] = "done" /\ ret[p].err = "nil"

\* C13 as stated: servers contains no host name twice, and no peer is probed
\* more than once in a discovery, for a seed whose node tokens are distinct.
C13_ServersUnique ==
    \A p \in Procs :
        (Built(p) /\ NoDup(master[p].Nodes)) =>
            NoDup(heap[Cluster].Servers) /\ NoDup(probes[p])

\* C13 amended: servers has one entry for every node token of the seed, so a
\* host listed k times by the seed is k times in servers (no host name is
\* there twice exactly when the seed lists no host twice), and a host other
\* than the stored seed host is probed once for every entry.
C13_OneEntryPerToken ==
    \A p \in Procs :
        /\ Built(p) =>
              /\ \A k \in 1..Len(master[p].Nodes) :
                     Count(heap[Cluster].Servers, Split(master[p].Nodes[k])[1])
                         = Count(HostNames(master[p].Nodes), Split(master[p].Nodes[k])[1])
              /\ NoDup(heap[Cluster].Servers) <=> NoDup(HostNames(master[p].Nodes))
        /\ Probed(p) =>
              \A k \in 1..Len(heap[Cluster].Servers) :
                  heap[Cluster].Servers[k] # server[p] =>
                      Count(Tail(probes[p]), Sprintf(heap[Cluster].Servers[k], port[p]))
                          = Count(heap[Cluster].Servers, heap[Cluster].Servers[k])

\* a host the seed lists twice is twice in servers and was probed twice
C13_Witness ==
    \E p \in Procs :
        /\ pc[p] = "done"
        /\ Probed(p)
        /\ ~NoDup(heap[Cluster].Servers)
        /\ ~NoDup(Tail(probes[p]))
\* the parse C14 describes: name before the first colon, instance everything
\* after it, the empty instance when there is no colon
ParseFirstColon(v) ==
    LET i == Index(v, Colon) IN
    IF i = 0 THEN <<v, <<>>>>
    ELSE <<SubSeq(v, 1, i - 1), SubSeq(v, i + 1, Len(v))>>

\* C14: the node added to the hash ring and the host name appended to servers
\* for a token are its name and instance split at the first colon only.
C14_SplitAtFirstColon ==
    \A p \in Procs :
        Built(p) =>
            /\ heap[Cluster].Hash.nodes =
                  [k \in 1..Len(master[p].Nodes) |-> ParseFirstColon(master[p].Nodes[k])]
            /\ heap[Cluster].Servers =
                  [k \in 1..Len(master[p].Nodes) |-> ParseFirstColon(master[p].Nodes[k])[1]]
\* what isHealthy gave in the call of p that has ended
Verdict(p) ==
    IF pc[p] = "panic" THEN "panic"
    ELSE IF heap[Cluster].Healthy THEN "true" ELSE "false"

\* the peers of p with their replicas replaced by those of rs
WithReplicas(p, rs) ==
    [k \in 1..Len(members[p]) |->
        IF members[p][k].nil THEN members[p][k]
        ELSE [members[p][k] EXCEPT !.Replicas = rs[k]]]

\* C15: the replica counts do not influence the verdict: isHealthy gives the
\* same result on a reference and peers that differ from those of the call
\* only in their replicas.
C15_ReplicasIgnored ==
    \A p \in Procs :
        pc[p] \in {"done", "panic"} =>
            \A r \in ReplicaCounts :
            \A rs \in [1..Len(members[p]) -> ReplicaCounts] :
                isHealthy([master[p] EXCEPT !.Replicas = r], WithReplicas(p, rs)) = Verdict(p)

\* a healthy verdict although a peer reports other replicas than the reference
C15_Witness ==
    \E p \in Procs :
        /\ pc[p] = "done"
        /\ heap[Cluster].Healthy
        /\ \E k \in 1..Len(members[p]) : members[p][k].Replicas # master[p].Replicas
\* C16: a call on an empty cache whose hostport argument is not a valid
\* host:port string returns an error and leaves the cache empty, whether the
\* probe of that address fails or answers with a recognized algorithm.
C16_MalformedArgumentIsFatal ==
    \A p \in Procs :
        ( /\ pc[p] \in {"done", "panic"}
          /\ atCall[p].Cluster = 0
          /\ SplitHostPort(hostport[p]).err
          /\ master[p].nil \/ master[p].Algo \in Recognized ) =>
            /\ pc[p] = "done"
            /\ ret[p].err # "nil"
            /\ Cluster = 0
\* C17: HostPorts on the nil config gives the empty result; otherwise the
\* result is as long as servers, its i-th element is servers[i], ":" and the
\* port, and the call leaves the config as it was.
C17_HostPorts ==
    /\ [](hostPortsRet.called =>
            IF hostPortsRet.c = 0
            THEN hostPortsRet.out = <<>>
            ELSE /\ Len(hostPortsRet.out) = Len(heap[hostPortsRet.c].Servers)
                 /\ \A i \in 1..Len(hostPortsRet.out) :
                        hostPortsRet.out[i] = heap[hostPortsRet.c].Servers[i]
                                                \o <<":">> \o heap[hostPortsRet.c].Port)
    /\ [][(hostPortsRet'.called /\ hostPortsRet' # hostPortsRet)
             => (heap' = heap /\ Cluster' = Cluster)]_vars

\* HostPorts was called on a config with several servers
C17_Witness ==
    /\ hostPortsRet.called
    /\ hostPortsRet.c # 0
    /\ Len(hostPortsRet.out) >= 2
\* every peer snapshot of p is present
AllPresent(p) == \A k \in 1..Len(members[p]) : ~members[p][k].nil

\* C18: on peers that are all present isHealthy returns true exactly when
\* there are as many peer snapshots as nodes in the reference and every peer
\* has the reference's algorithm, its node count and the same token at every
\* index; it returns false otherwise.
C18_HealthyExactly ==
    \A p \in Procs :
        (pc[p] \in {"done", "panic"} /\ AllPresent(p)) =>
            /\ pc[p] = "done"
            /\ heap[Cluster].Healthy <=>
                  /\ Len(members[p]) = Len(master[p].Nodes)
                  /\ \A k \in 1..Len(members[p]) :
                        /\ members[p][k].Algo = master[p].Algo
                        /\ Len(members[p][k].Nodes) = Len(master[p].Nodes)
                        /\ \A j \in 1..Len(master[p].Nodes) :
                               members[p][k].Nodes[j] = master[p].Nodes[j]

\* a true verdict on two peers or more, all present
C18_Witness ==
    \E p \in Procs :
        /\ pc[p] = "done"
        /\ AllPresent(p)
        /\ Len(members[p]) >= 2
        /\ heap[Cluster].Healthy
\* the servers the loop of lines 88-99 probes: all but the host of line 58
Peers(p) == SelectSeq(heap[Cluster].Servers, LAMBDA s : s # server[p])

C20_CacheMonotonic ==
    [][Cluster # 0 => Cluster' = Cluster]_vars

\* a call that began with the cache assigned has returned, the cache still
\* holding that object
C20_Witness ==
    \E p \in Procs :
        /\ pc[p] = "done"
        /\ atCall[p].Cluster # 0
        /\ Cluster = atCall[p].Cluster
        /\ ret[p].cfg = Cluster
====
